---- MODULE Spec2Model ----
(***************************************************************************)
(* Food Wastage Management dashboard (src/streamlit_app.py).               *)
(*                                                                         *)
(* The program is a Streamlit script: every user interaction re-runs       *)
(* main(), which first calls load_all_data() and then the handler of the   *)
(* selected page.  The database is reached through one module-level        *)
(* connection `conn`; reads go through load_data (memoized by query text   *)
(* with st.cache_data), writes through execute_query.                      *)
(*                                                                         *)
(* A table is a set of rows [id, fields]; the identity column is unique    *)
(* and assigned by the database (the INSERT statements never name it).     *)
(***************************************************************************)
EXTENDS Integers, Sequences, FiniteSets, TLC

VARIABLES
    conn,           \* TRUE iff init_connection returned a connection object
    db,             \* the stored tables: table name -> set of rows
    nextId,         \* the database's identity counter of each table
    cache,          \* st.cache_data of load_data: query text -> result
    allCache,       \* st.cache_data of load_all_data (no arguments)
    show_add_form,  \* st.session_state.show_add_form
    last,           \* the last interaction and what it showed
    frames,         \* the DataFrames main() hands to show_claims
    view,           \* what show_claims put on the page
    result          \* the last report run by show_queries and its rows

vars == <<conn, db, nextId, cache, allCache, show_add_form, last, frames, view,
          result>>

-----------------------------------------------------------------------------
(* Bounds of the model *)

MaxId == 2          \* identity values a table may hand out
MaxClaimRows == 2   \* rows of the Claims frame handed to show_claims
MaxReportClaims == 6 \* rows of the Claims table the reports are run on

-----------------------------------------------------------------------------
(* Tables and the values the forms can submit *)

Tables == {"Providers", "Receivers", "Food_Listings_Dataset", "Claims"}

\* text_input returns any text, the empty string included
Names == {"", "Ann"}

ProviderFields ==
    { [Name |-> n, Type |-> "Restaurant", Address |-> "1 Main St",
       City |-> "Adambury", Contact |-> "555"] : n \in Names }

ReceiverFields ==
    { [Name |-> n, Type |-> "Charity", City |-> "Adambury", Contact |-> "556"]
        : n \in Names }

\* number_input(min_value=1) returns an integer >= 1
Quantities == {5, 10}

FoodTypes == {"Vegan", "Vegetarian"}

ListingFields ==
    { [Food_Name |-> "Rice", Quantity |-> x[1], Expiry_Date |-> "2025-01-01",
       Provider_ID |-> 1, Provider_Type |-> "Restaurant",
       Location |-> "Adambury", Food_Type |-> x[2], Meal_Type |-> "Lunch"]
        : x \in Quantities \X FoodTypes }

Statuses == {"Completed", "Pending", "Canceled"}

ClaimFields ==
    { [Food_ID |-> 1, Receiver_ID |-> 1, Status |-> s] : s \in {"Completed", "Pending"} }

NoFields == [none |-> "none"]

\* the values a user means to store in a row of the table.  The CRUD page has
\* input fields for Providers and Receivers (create) and Providers (update)
\* only; the handlers of the other tables never read these values.
FieldsOf(table) ==
    IF table = "Providers" THEN ProviderFields
    ELSE IF table = "Receivers" THEN ReceiverFields
    ELSE IF table = "Food_Listings_Dataset" THEN ListingFields
    ELSE ClaimFields

\* the rows a table holds before the first interaction
SeedCounts == {0, 1}

SeedFields(table) ==
    IF table = "Providers" THEN
        [Name |-> "Ann", Type |-> "Restaurant", Address |-> "1 Main St",
         City |-> "Adambury", Contact |-> "555"]
    ELSE IF table = "Receivers" THEN
        [Name |-> "Ann", Type |-> "Charity", City |-> "Adambury", Contact |-> "556"]
    ELSE IF table = "Food_Listings_Dataset" THEN
        [Food_Name |-> "Rice", Quantity |-> 5, Expiry_Date |-> "2025-01-01",
         Provider_ID |-> 1, Provider_Type |-> "Restaurant",
         Location |-> "Adambury", Food_Type |-> "Vegan", Meal_Type |-> "Lunch"]
    ELSE [Food_ID |-> 1, Receiver_ID |-> 1, Status |-> "Pending"]

SelectAll(table) == <<"SELECT * FROM", table>>

Ids(rows) == { r.id : r \in rows }

-----------------------------------------------------------------------------
(* The database engine: what a statement does to the tables *)

\* INSERT INTO table (...) VALUES (...): the identity column is assigned
Insert(d, n, table, fields) ==
    [d EXCEPT ![table] = @ \cup {[id |-> n[table], fields |-> fields]}]

\* UPDATE table SET ... WHERE id_col = id
Update(d, table, id, fields) ==
    [d EXCEPT ![table] =
        { IF r.id = id THEN [id |-> r.id, fields |-> fields] ELSE r : r \in @ }]

\* DELETE FROM table WHERE id_col = id
Delete(d, table, id) ==
    [d EXCEPT ![table] = { r \in @ : r.id # id }]

ApplyStmt(d, n, stmt) ==
    IF stmt.kind = "INSERT" THEN Insert(d, n, stmt.table, stmt.fields)
    ELSE IF stmt.kind = "UPDATE" THEN Update(d, stmt.table, stmt.id, stmt.fields)
    ELSE Delete(d, stmt.table, stmt.id)

BumpId(n, stmt) ==
    IF stmt.kind = "INSERT" THEN [n EXCEPT ![stmt.table] = @ + 1] ELSE n

\* the rows a statement touches
RowCount(d, stmt) ==
    IF stmt.kind = "INSERT" THEN 1
    ELSE Cardinality({ r \in d[stmt.table] : r.id = stmt.id })

\* Query 10 with COUNT(*) * 100 in place of COUNT(*) * 100.0: T-SQL divides
\* two integers as integers
Percentage_integer_division(count, total) == ((count * 100) \div total) * 100

\* ROUND(COUNT(*) * 100.0 / total, 2), in hundredths of a percent.  The
\* quotient is a decimal with more than two places and ROUND rounds half away
\* from zero; for counts of this size the extra places never move a quotient
\* across a rounding boundary, so this is the exact quotient rounded half up.
Percentage(count, total) == (2 * count * 10000 + total) \div (2 * total)

\* Query 10 grouped over a fixed list of statuses instead of the statuses
\* stored: every status gets a row, and its percentage divides by the total
\* even when the table is empty.  A row whose Percentage is -1 stands for
\* the statement failing with a divide-by-zero error.
Query10_every_status(claims) ==
    LET total == Cardinality(claims)
        count(s) == Cardinality({ r \in claims : r.fields.Status = s })
    IN  { [Status |-> s, Count |-> count(s),
           Percentage |-> IF total = 0 THEN -1
                          ELSE Percentage(count(s), total)]
            : s \in Statuses }

\* Query 10: SELECT Status, COUNT(*), ROUND(...) FROM Claims GROUP BY Status.
\* An empty table has no group, hence no row (and no division).
Query10(claims) ==
    LET total == Cardinality(claims)
        count(s) == Cardinality({ r \in claims : r.fields.Status = s })
    IN  { [Status |-> s, Count |-> count(s), Percentage |-> Percentage(count(s), total)]
            : s \in { r.fields.Status : r \in claims } }

Query10Text == <<"Query 10", "Claims">>

RECURSIVE SumQuantity(_)
SumQuantity(rows) ==
    IF rows = {} THEN 0
    ELSE LET r == CHOOSE x \in rows : TRUE
         IN  r.fields.Quantity + SumQuantity(rows \ {r})

\* Query 5: SELECT SUM(Quantity) AS Total_Quantity_Available FROM
\* Food_Listings_Dataset: always one row; SUM over no row is NULL
Query5(listings) ==
    {[Total_Quantity_Available |-> SumQuantity(listings), IsNull |-> listings = {}]}

Query5Text == <<"Query 5", "Food_Listings_Dataset">>

\* Query 7: SELECT Food_Type, COUNT(Food_ID) AS Listings_Count FROM
\* Food_Listings_Dataset GROUP BY Food_Type: one row per food type stored
Query7(listings) ==
    { [Food_Type |-> t,
       Listings_Count |-> Cardinality({ r \in listings : r.fields.Food_Type = t })]
        : t \in { r.fields.Food_Type : r \in listings } }

Query7Text == <<"Query 7", "Food_Listings_Dataset">>

\* the thirteen reports of show_queries, in the order of the dictionary.
\* Reports 5, 7 and 10 are computed from the tables; the rows of the ten
\* other reports (joins of several tables) are left abstract: one value per
\* report.
ReportCount == 13
ReportTexts ==
    [k \in 1..ReportCount |->
        IF k = 5 THEN Query5Text
        ELSE IF k = 7 THEN Query7Text
        ELSE IF k = 10 THEN Query10Text
        ELSE <<"Query", k>>]

\* the reports whose rows are computed
Computed == {5, 7, 10}

\* the column names of the computed reports, each name cut into pieces so
\* that the words the chart rule looks for are pieces of their own
ReportColumns(k) ==
    IF k = 5 THEN << <<"Total", "_Quantity_Available">> >>
    ELSE IF k = 7 THEN << <<"Food_Type">>, <<"Listings_", "Count">> >>
    ELSE << <<"Status">>, <<"Count">>, <<"Percentage">> >>

\* what the database returns for a query text
RunQuery(d, q) ==
    IF q[1] = "SELECT * FROM" THEN d[q[2]]
    ELSE IF q[1] = "Query 10" THEN Query10(d[q[2]])
    ELSE IF q[1] = "Query 5" THEN Query5(d[q[2]])
    ELSE IF q[1] = "Query 7" THEN Query7(d[q[2]])
    ELSE {[report |-> q[2]]}

-----------------------------------------------------------------------------
(* Data access layer *)

\* load_data without the memo: every call reads the table again
load_data_uncached(c, ch, d, q) ==
    LET r == IF c THEN RunQuery(d, q) ELSE {}
    IN  [result |-> r, cache |-> (q :> r) @@ [x \in DOMAIN ch \ {q} |-> ch[x]],
         reads |-> IF c THEN 1 ELSE 0]

\* load_data is wrapped in st.cache_data: the first call for a query text
\* stores the value returned, every later call returns the stored value.
\* `ch` is the memo (a function whose domain is the query texts seen so far);
\* `reads` counts the calls of pd.read_sql.
load_data(c, ch, d, q) ==
    IF q \in DOMAIN ch
    THEN [result |-> ch[q], cache |-> ch, reads |-> 0]
    ELSE LET r == IF c THEN RunQuery(d, q) ELSE {}
         IN  [result |-> r, cache |-> (q :> r) @@ ch, reads |-> IF c THEN 1 ELSE 0]

\* execute_query falling through to `return True` without a connection
execute_query_no_guard(c, d, n, stmt, fails) ==
    IF c /\ fails
    THEN [ret |-> "raised", db |-> d, nextId |-> n, rowcount |-> 0]
    ELSE [ret |-> "True", db |-> IF c THEN ApplyStmt(d, n, stmt) ELSE d,
          nextId |-> IF c THEN BumpId(n, stmt) ELSE n,
          rowcount |-> IF c THEN RowCount(d, stmt) ELSE 0]

\* execute_query returning False when the statement matched no row
execute_query_checks_rowcount(c, d, n, stmt, fails) ==
    IF c
    THEN IF fails
         THEN [ret |-> "raised", db |-> d, nextId |-> n, rowcount |-> 0]
         ELSE [ret |-> IF RowCount(d, stmt) = 0 THEN "False" ELSE "True",
               db |-> ApplyStmt(d, n, stmt), nextId |-> BumpId(n, stmt),
               rowcount |-> RowCount(d, stmt)]
    ELSE [ret |-> "False", db |-> d, nextId |-> n, rowcount |-> 0]

\* execute_query has no try/except: when cursor.execute (or commit) raises,
\* the exception leaves the function.  `fails` is the driver's verdict on the
\* statement; a failed statement changes no table.  `rowcount` is the number
\* of rows the statement touched (cursor.rowcount, which the code never reads).
execute_query(c, d, n, stmt, fails) ==
    IF c
    THEN IF fails
         THEN [ret |-> "raised", db |-> d, nextId |-> n, rowcount |-> 0]
         ELSE [ret |-> "True", db |-> ApplyStmt(d, n, stmt), nextId |-> BumpId(n, stmt),
               rowcount |-> RowCount(d, stmt)]
    ELSE [ret |-> "False", db |-> d, nextId |-> n, rowcount |-> 0]

\* load_all_data is memoized too; on its first call it reads the four tables
\* through load_data, in this order.
load_all_data(c, ch, ac, d) ==
    IF ac.set
    THEN [frames |-> ac.frames, cache |-> ch, allCache |-> ac, reads |-> 0]
    ELSE LET l1 == load_data(c, ch, d, SelectAll("Providers"))
             l2 == load_data(c, l1.cache, d, SelectAll("Receivers"))
             l3 == load_data(c, l2.cache, d, SelectAll("Food_Listings_Dataset"))
             l4 == load_data(c, l3.cache, d, SelectAll("Claims"))
             fr == [t \in Tables |->
                      IF t = "Providers" THEN l1.result
                      ELSE IF t = "Receivers" THEN l2.result
                      ELSE IF t = "Food_Listings_Dataset" THEN l3.result
                      ELSE l4.result]
         IN  [frames |-> fr, cache |-> l4.cache,
              allCache |-> [set |-> TRUE, frames |-> fr],
              reads |-> l1.reads + l2.reads + l3.reads + l4.reads]

-----------------------------------------------------------------------------
(* DataFrames: a sequence of column names and a sequence of rows, each row  *)
(* a function from the column names to values (all values are strings;      *)
(* "NaN" is the missing value a left merge fills in).                       *)

InSeq(x, s) == \E i \in 1..Len(s) : s[i] = x
Range(s) == { s[i] : i \in 1..Len(s) }

EmptyDF == [cols |-> << >>, rows |-> << >>]

\* DataFrame.empty
empty(df) == Len(df.rows) = 0 \/ Len(df.cols) = 0

\* df[cols]
Project(df, cols) ==
    [cols |-> cols,
     rows |-> [i \in 1..Len(df.rows) |-> [c \in Range(cols) |-> df.rows[i][c]]]]

RECURSIVE Concat(_)
Concat(ss) == IF Len(ss) = 0 THEN << >> ELSE Head(ss) \o Concat(Tail(ss))

\* left.merge(right, on=key, how='left'): every left row, in order, joined
\* with each right row of the same key value, or with NaN when there is none.
\* No column but the key is shared by the frames merged here.
merge(left, right, key) ==
    LET extra == SelectSeq(right.cols, LAMBDA c : c # key)
        nan == [c \in Range(extra) |-> "NaN"]
        joined(l) ==
            LET m == SelectSeq(right.rows, LAMBDA r : r[key] = l[key])
            IN  IF Len(m) = 0 THEN << l @@ nan >>
                ELSE [j \in 1..Len(m) |-> l @@ [c \in Range(extra) |-> m[j][c]]]
    IN  [ok |-> TRUE,
         df |-> [cols |-> left.cols \o extra,
                 rows |-> Concat([i \in 1..Len(left.rows) |-> joined(left.rows[i])])]]

\* left.merge(right, left_on=col, right_index=False, how='left'): pandas
\* refuses a merge given left_on without right_on or right_index (MergeError)
merge_left_on(left, right, col) == [ok |-> FALSE, df |-> EmptyDF]

\* str.endswith('_ID') over the column names of the model
EndsWith_ID(col) ==
    col \in {"Claim_ID", "Food_ID", "Provider_ID", "Receiver_ID", "Rcv_ID"}

None == "None"

\* the receiver key tried as Receiver_ID only
receiver_key_canonical_only(claims_cols, receivers_cols) ==
    IF InSeq("Receiver_ID", claims_cols) /\ InSeq("Receiver_ID", receivers_cols)
    THEN "Receiver_ID" ELSE None

\* show_claims, the if/elif chain that picks receiver_key
receiver_key(claims_cols, receivers_cols) ==
    IF InSeq("Receiver_ID", claims_cols) /\ InSeq("Receiver_ID", receivers_cols)
    THEN "Receiver_ID"
    ELSE IF InSeq("ReceiverID", claims_cols) /\ InSeq("ReceiverID", receivers_cols)
    THEN "ReceiverID"
    ELSE IF InSeq("ReceiverId", claims_cols) /\ InSeq("ReceiverId", receivers_cols)
    THEN "ReceiverId"
    ELSE None

\* show_claims, the body of the try block: [ok, df]; ok = FALSE when a
\* statement of the block raised
claims_with_details(claims, food_listings, receivers) ==
    LET food_cols == <<"Food_ID", "Food_Name", "Location", "Food_Type">>
        available_food_cols ==
            SelectSeq(food_cols, LAMBDA c : InSeq(c, food_listings.cols))
        with_food ==
            IF /\ InSeq("Food_ID", claims.cols)
               /\ InSeq("Food_ID", food_listings.cols)
               /\ Len(available_food_cols) > 0
            THEN merge(claims, Project(food_listings, available_food_cols), "Food_ID")
            ELSE [ok |-> TRUE, df |-> claims]
        key == receiver_key(claims.cols, receivers.cols)
        receiver_cols ==
            IF InSeq("Name", receivers.cols) THEN <<key, "Name">> ELSE <<key>>
        shared == SelectSeq(claims.cols,
                            LAMBDA c : InSeq(c, receivers.cols) /\ EndsWith_ID(c))
    IN  IF key # None
        THEN merge(with_food.df, Project(receivers, receiver_cols), key)
        ELSE IF Len(shared) > 0
        THEN merge_left_on(with_food.df,
                           IF InSeq("Name", receivers.cols)
                           THEN Project(receivers, <<"Name">>) ELSE receivers,
                           shared[1])
        ELSE with_food

\* show_claims with no except clause
show_claims_no_except(claims, food_listings, receivers) ==
    IF empty(claims) \/ empty(food_listings) \/ empty(receivers)
    THEN [notice |-> "warning", table |-> EmptyDF, raised |-> FALSE]
    ELSE LET b == claims_with_details(claims, food_listings, receivers)
         IN  IF b.ok
             THEN [notice |-> "shown", table |-> b.df, raised |-> FALSE]
             ELSE [notice |-> "none", table |-> EmptyDF, raised |-> TRUE]

\* show_claims: what the page shows; `raised` tells whether an exception left
\* the function
show_claims(claims, food_listings, receivers) ==
    IF empty(claims) \/ empty(food_listings) \/ empty(receivers)
    THEN [notice |-> "warning", table |-> EmptyDF, raised |-> FALSE]
    ELSE LET b == claims_with_details(claims, food_listings, receivers)
         IN  IF b.ok
             THEN [notice |-> "shown", table |-> b.df, raised |-> FALSE]
             ELSE [notice |-> "error", table |-> claims, raised |-> FALSE]

NoFrames == [claims |-> EmptyDF, food_listings |-> EmptyDF, receivers |-> EmptyDF]
NoView == [notice |-> "none", table |-> EmptyDF, raised |-> FALSE]
NoResult == [query |-> <<"none", "none">>, rows |-> {}, columns |-> << >>,
             chart |-> "none"]

-----------------------------------------------------------------------------
(* Initial state: the module has been imported, nothing has been rendered *)

NoOp == [op |-> "none", table |-> "none", id |-> 0, fields |-> NoFields,
         ret |-> "none", notice |-> "none", shown |-> {},
         reads |-> 0, writes |-> 0, rowcount |-> 0]

SeedRows(table, k) == { [id |-> i, fields |-> SeedFields(table)] : i \in 1..k }

Init ==
    /\ conn \in BOOLEAN
    /\ \E k \in SeedCounts :
          /\ db = [t \in Tables |-> SeedRows(t, k)]
          /\ nextId = [t \in Tables |-> k + 1]
    /\ cache = << >>
    /\ allCache = [set |-> FALSE, frames |-> [t \in Tables |-> {}]]
    /\ show_add_form = FALSE
    /\ last = NoOp
    /\ frames = NoFrames
    /\ view = NoView
    /\ result = NoResult

-----------------------------------------------------------------------------
(* CRUD Operations page: one action per operation; each is a whole run of  *)
(* main(): load_all_data(), then show_crud_operations and its handler.     *)

\* show_create_form: only Providers and Receivers have a form
show_create_form(c, ch, d, n, table, fields, fails) ==
    IF table \in {"Providers", "Receivers"}
    THEN LET ex == execute_query(c, d, n,
                     [kind |-> "INSERT", table |-> table, id |-> 0, fields |-> fields],
                     fails)
         IN  [db |-> ex.db, nextId |-> ex.nextId, cache |-> ch, ret |-> ex.ret,
              notice |-> IF ex.ret = "True" THEN "success"
                         ELSE IF ex.ret = "raised" THEN "exception" ELSE "none",
              shown |-> {}, reads |-> 0, writes |-> 1, rowcount |-> ex.rowcount]
    ELSE [db |-> d, nextId |-> n, cache |-> ch, ret |-> "none",
          notice |-> "none", shown |-> {}, reads |-> 0, writes |-> 0, rowcount |-> 0]

\* show_read_table
show_read_table(c, ch, d, n, table) ==
    LET data == load_data(c, ch, d, SelectAll(table))
    IN  [db |-> d, nextId |-> n, cache |-> data.cache, ret |-> "none",
         notice |-> "none", shown |-> data.result,
         reads |-> data.reads, writes |-> 0, rowcount |-> 0]

\* show_update_form: the id is chosen among the ids of the memoized read;
\* only Providers has editable fields and a submit button
show_update_form(c, ch, d, n, table, selected_id, fields, fails) ==
    LET data == load_data(c, ch, d, SelectAll(table))
    IN  IF data.result = {}
        THEN [db |-> d, nextId |-> n, cache |-> data.cache, ret |-> "none",
              notice |-> "warning", shown |-> {},
              reads |-> data.reads, writes |-> 0, rowcount |-> 0]
        ELSE IF table = "Providers"
        THEN LET ex == execute_query(c, d, n,
                         [kind |-> "UPDATE", table |-> table, id |-> selected_id,
                          fields |-> fields], fails)
             IN  [db |-> ex.db, nextId |-> ex.nextId, cache |-> data.cache,
                  ret |-> ex.ret,
                  notice |-> IF ex.ret = "True" THEN "success"
                             ELSE IF ex.ret = "raised" THEN "exception" ELSE "none",
                  shown |-> {},
                  reads |-> data.reads, writes |-> 1, rowcount |-> ex.rowcount]
        ELSE [db |-> d, nextId |-> n, cache |-> data.cache, ret |-> "none",
              notice |-> "none", shown |-> {},
              reads |-> data.reads, writes |-> 0, rowcount |-> 0]

\* show_delete_form: the id is chosen among the ids of the memoized read
show_delete_form(c, ch, d, n, table, selected_id, fails) ==
    LET data == load_data(c, ch, d, SelectAll(table))
    IN  IF data.result = {}
        THEN [db |-> d, nextId |-> n, cache |-> data.cache, ret |-> "none",
              notice |-> "warning", shown |-> {},
              reads |-> data.reads, writes |-> 0, rowcount |-> 0]
        ELSE LET ex == execute_query(c, d, n,
                         [kind |-> "DELETE", table |-> table, id |-> selected_id,
                          fields |-> NoFields], fails)
             IN  [db |-> ex.db, nextId |-> ex.nextId, cache |-> data.cache,
                  ret |-> ex.ret,
                  notice |-> IF ex.ret = "True" THEN "success"
                             ELSE IF ex.ret = "raised" THEN "exception" ELSE "none",
                  shown |-> {},
                  reads |-> data.reads, writes |-> 1, rowcount |-> ex.rowcount]

\* the state after a run of main() whose handler produced `h`
Finish(la, h, op, table, id, fields) ==
    /\ db' = h.db
    /\ nextId' = h.nextId
    /\ cache' = h.cache
    /\ allCache' = la.allCache
    /\ last' = [op |-> op, table |-> table, id |-> id, fields |-> fields,
                ret |-> h.ret, notice |-> h.notice, shown |-> h.shown,
                reads |-> la.reads + h.reads, writes |-> h.writes,
                rowcount |-> h.rowcount]
    /\ UNCHANGED <<conn, show_add_form, frames, view, result>>

CrudCreate ==
    \E table \in Tables, fails \in BOOLEAN :
      \E fields \in FieldsOf(table) :
        LET la == load_all_data(conn, cache, allCache, db)
            h  == show_create_form(conn, la.cache, db, nextId, table, fields, fails)
        IN  /\ nextId[table] <= MaxId
            /\ Finish(la, h, "Create", table, 0, fields)

CrudRead ==
    \E table \in Tables :
        LET la == load_all_data(conn, cache, allCache, db)
            h  == show_read_table(conn, la.cache, db, nextId, table)
        IN  Finish(la, h, "Read", table, 0, NoFields)

\* the ids the selectbox of the update and delete forms offers (0: no data)
Offered(la, table) ==
    LET ids == Ids(load_data(conn, la.cache, db, SelectAll(table)).result)
    IN  IF ids = {} THEN {0} ELSE ids

CrudUpdate ==
    \E table \in Tables, fails \in BOOLEAN :
      \E fields \in FieldsOf(table) :
        LET la == load_all_data(conn, cache, allCache, db)
        IN  \E selected_id \in Offered(la, table) :
              LET h == show_update_form(conn, la.cache, db, nextId, table,
                                        selected_id, fields, fails)
              IN  Finish(la, h, "Update", table, selected_id, fields)

CrudDelete ==
    \E table \in Tables, fails \in BOOLEAN :
        LET la == load_all_data(conn, cache, allCache, db)
        IN  \E selected_id \in Offered(la, table) :
              LET h == show_delete_form(conn, la.cache, db, nextId, table,
                                        selected_id, fails)
              IN  Finish(la, h, "Delete", table, selected_id, NoFields)

Next == CrudCreate \/ CrudRead \/ CrudUpdate \/ CrudDelete

Spec == Init /\ [][Next]_vars

-----------------------------------------------------------------------------
(* The Claims page over the frames of databases whose schemas differ in the *)
(* receiver identity column                                                 *)

KeyNames == {"Receiver_ID", "ReceiverID", "ReceiverId", "Rcv_ID", "Receiver"}

\* the receiver columns of Claims, in column order (none, one or two)
ClaimKeySeqs ==
    { << >> } \cup { <<a>> : a \in KeyNames }
      \cup { <<a, b>> : <<a, b>> \in { p \in KeyNames \X KeyNames : p[1] # p[2] } }

\* the identity columns of Receivers (one or two spellings)
KeyOrder == <<"Receiver_ID", "ReceiverID", "ReceiverId", "Rcv_ID", "Receiver">>
ReceiverKeySeqs ==
    { SelectSeq(KeyOrder, LAMBDA c : c \in S) :
        S \in { T \in SUBSET KeyNames : Cardinality(T) \in {1, 2} } }

IdStr == <<"1", "2", "3", "4">>
Refs == {"1", "2", "3"}
NextRef(v) == IF v = "1" THEN "2" ELSE IF v = "2" THEN "3" ELSE "1"
ReceiverNames == <<"Ann", "Bob">>
ReceiverCounts == {0, 2}
FoodCounts == {0, 1}

\* Claims: the first receiver column of row i holds refs[i], a second one the
\* next value, so that the column a merge used shows in its result
ClaimsFrame(keys, hasFood, refs) ==
    LET cols == <<"Claim_ID">> \o (IF hasFood THEN <<"Food_ID">> ELSE << >>)
                  \o keys \o <<"Status">>
        val(i, c) ==
            IF c = "Claim_ID" THEN IdStr[i]
            ELSE IF c = "Food_ID" THEN "1"
            ELSE IF c = "Status" THEN "Pending"
            ELSE IF c = keys[1] THEN refs[i] ELSE NextRef(refs[i])
    IN  [cols |-> cols,
         rows |-> [i \in 1..Len(refs) |-> [c \in Range(cols) |-> val(i, c)]]]

\* Receivers: every spelling of the identity column holds the identity
ReceiversFrame(keys, hasName, n) ==
    LET cols == keys \o (IF hasName THEN <<"Name">> ELSE << >>) \o <<"Type", "City">>
        val(j, c) ==
            IF c = "Name" THEN ReceiverNames[j]
            ELSE IF c = "Type" THEN "Charity"
            ELSE IF c = "City" THEN "Adambury"
            ELSE IdStr[j]
    IN  [cols |-> cols,
         rows |-> [j \in 1..n |-> [c \in Range(cols) |-> val(j, c)]]]

FoodFrame(n) ==
    LET cols == <<"Food_ID", "Food_Name", "Quantity", "Location", "Food_Type">>
        val(j, c) ==
            IF c = "Food_ID" THEN IdStr[j]
            ELSE IF c = "Food_Name" THEN "Rice"
            ELSE IF c = "Quantity" THEN "5"
            ELSE IF c = "Location" THEN "Adambury" ELSE "Vegan"
    IN  [cols |-> cols,
         rows |-> [j \in 1..n |-> [c \in Range(cols) |-> val(j, c)]]]

InitClaims ==
    /\ conn = TRUE
    /\ db = [t \in Tables |-> {}]
    /\ nextId = [t \in Tables |-> 1]
    /\ cache = << >>
    /\ allCache = [set |-> FALSE, frames |-> [t \in Tables |-> {}]]
    /\ show_add_form = FALSE
    /\ last = NoOp
    /\ view = NoView
    /\ result = NoResult
    /\ \E ckeys \in ClaimKeySeqs, rkeys \in ReceiverKeySeqs,
          hasFood \in BOOLEAN, hasName \in BOOLEAN,
          nc \in 0..MaxClaimRows, nr \in ReceiverCounts, nf \in FoodCounts :
         \E refs \in [1..nc -> Refs] :
            frames = [claims |-> ClaimsFrame(ckeys, hasFood, refs),
                      food_listings |-> FoodFrame(nf),
                      receivers |-> ReceiversFrame(rkeys, hasName, nr)]

\* main() with page = "Claims"
ShowClaimsPage ==
    /\ view' = show_claims(frames.claims, frames.food_listings, frames.receivers)
    /\ UNCHANGED <<conn, db, nextId, cache, allCache, show_add_form, last, frames,
                   result>>

NextClaims == ShowClaimsPage

SpecClaims == InitClaims /\ [][NextClaims]_vars

-----------------------------------------------------------------------------
(* The Queries page over Claims tables of every size and status mix *)

ClaimRows(status) ==
    { [id |-> i, fields |-> [Food_ID |-> 1, Receiver_ID |-> 1, Status |-> status[i]]]
        : i \in DOMAIN status }

InitReports ==
    /\ conn \in BOOLEAN
    /\ \E n \in 0..MaxReportClaims : \E status \in [1..n -> Statuses] :
          /\ db = [t \in Tables |-> IF t = "Claims" THEN ClaimRows(status) ELSE {}]
          /\ nextId = [t \in Tables |-> IF t = "Claims" THEN n + 1 ELSE 1]
    /\ cache = << >>
    /\ allCache = [set |-> FALSE, frames |-> [t \in Tables |-> {}]]
    /\ show_add_form = FALSE
    /\ last = NoOp
    /\ frames = NoFrames
    /\ view = NoView
    /\ result = NoResult

\* 'Total' in str(name), 'Count' in str(name)
Contains(name, word) == \E i \in DOMAIN name : name[i] = word

\* the chart rule without the test on the number of rows
plotly_chart_any_rows(columns, nrows) ==
    IF nrows = 0 THEN "none"
    ELSE IF Len(columns) >= 2
         THEN IF \/ Contains(columns[Len(columns)], "Total")
                 \/ Contains(columns[Len(columns)], "Count")
              THEN "bar" ELSE "none"
         ELSE "none"

\* the chart show_queries draws under a result of `nrows` rows: a frame
\* without rows is not displayed at all; px.bar is the only chart
plotly_chart(columns, nrows) ==
    IF nrows = 0 THEN "none"
    ELSE IF Len(columns) >= 2 /\ nrows > 1
         THEN IF \/ Contains(columns[Len(columns)], "Total")
                 \/ Contains(columns[Len(columns)], "Count")
              THEN "bar" ELSE "none"
         ELSE "none"

\* the loop of show_queries from report k on: every report is loaded through
\* load_data, in the order of the dictionary
RECURSIVE LoadReports(_, _, _, _)
LoadReports(c, ch, d, k) ==
    IF k > ReportCount THEN [cache |-> ch, reads |-> 0]
    ELSE LET r    == load_data(c, ch, d, ReportTexts[k])
             rest == LoadReports(c, r.cache, d, k + 1)
         IN  [cache |-> rest.cache, reads |-> r.reads + rest.reads]

\* main() with page = "Queries": load_all_data(), then show_queries loads
\* and renders the thirteen reports; `result` is what the expander of
\* report k shows
ShowReport(k) ==
    LET la   == load_all_data(conn, cache, allCache, db)
        sq   == LoadReports(conn, la.cache, db, 1)
        rows == sq.cache[ReportTexts[k]]
    IN  /\ cache' = sq.cache
        /\ allCache' = la.allCache
        /\ result' = [query |-> ReportTexts[k], rows |-> rows,
                      columns |-> ReportColumns(k),
                      chart |-> plotly_chart(ReportColumns(k), Cardinality(rows))]
        /\ last' = [op |-> "Queries", table |-> "none", id |-> 0,
                    fields |-> NoFields, ret |-> "none", notice |-> "none",
                    shown |-> {}, reads |-> la.reads + sq.reads, writes |-> 0,
                    rowcount |-> 0]
        /\ UNCHANGED <<conn, db, nextId, show_add_form, frames, view>>

ShowQuery10 == ShowReport(10)

NextReports == ShowQuery10

SpecReports == InitReports /\ [][NextReports]_vars

-----------------------------------------------------------------------------
(* The Food Listings page with its add-listing form, and the Queries page *)

\* show_food_listings resetting the flag after every submit, whatever
\* execute_query reported
show_food_listings_closes_on_submit(c, d, n, food_listings, flag, click, submitted, fields, fails) ==
    IF food_listings = {}
    THEN [db |-> d, nextId |-> n, show_add_form |-> flag, ret |-> "none",
          notice |-> "warning", shown |-> {}, writes |-> 0, rowcount |-> 0,
          rerun |-> FALSE]
    ELSE LET opened == flag \/ click
         IN  IF opened /\ submitted
             THEN LET ex == execute_query(c, d, n,
                                [kind |-> "INSERT", table |-> "Food_Listings_Dataset",
                                 id |-> 0, fields |-> fields], fails)
                  IN  [db |-> ex.db, nextId |-> ex.nextId, show_add_form |-> FALSE,
                       ret |-> ex.ret,
                       notice |-> IF ex.ret = "True" THEN "success"
                                  ELSE IF ex.ret = "raised" THEN "exception"
                                  ELSE "none",
                       shown |-> food_listings, writes |-> 1,
                       rowcount |-> ex.rowcount, rerun |-> ex.ret = "True"]
             ELSE [db |-> d, nextId |-> n, show_add_form |-> opened, ret |-> "none",
                   notice |-> "none", shown |-> food_listings, writes |-> 0,
                   rowcount |-> 0, rerun |-> FALSE]

\* show_food_listings.  `flag` is st.session_state.show_add_form, `click` the
\* value of the "Add New Listing" button, `submitted` that of the form's
\* submit button.  `rerun` tells that st.rerun() was called.
show_food_listings(c, d, n, food_listings, flag, click, submitted, fields, fails) ==
    IF food_listings = {}
    THEN [db |-> d, nextId |-> n, show_add_form |-> flag, ret |-> "none",
          notice |-> "warning", shown |-> {}, writes |-> 0, rowcount |-> 0,
          rerun |-> FALSE]
    ELSE LET opened == flag \/ click
         IN  IF opened /\ submitted
             THEN LET ex == execute_query(c, d, n,
                                [kind |-> "INSERT", table |-> "Food_Listings_Dataset",
                                 id |-> 0, fields |-> fields], fails)
                  IN  [db |-> ex.db, nextId |-> ex.nextId,
                       show_add_form |-> IF ex.ret = "True" THEN FALSE ELSE opened,
                       ret |-> ex.ret,
                       notice |-> IF ex.ret = "True" THEN "success"
                                  ELSE IF ex.ret = "raised" THEN "exception"
                                  ELSE "none",
                       shown |-> food_listings, writes |-> 1,
                       rowcount |-> ex.rowcount, rerun |-> ex.ret = "True"]
             ELSE [db |-> d, nextId |-> n, show_add_form |-> opened, ret |-> "none",
                   notice |-> "none", shown |-> food_listings, writes |-> 0,
                   rowcount |-> 0, rerun |-> FALSE]

\* a run of main() with page = "Food Listings"; after st.rerun() the script
\* runs once more with no widget triggered
ListingsRun(op, click, submitted, fields, fails) ==
    LET la  == load_all_data(conn, cache, allCache, db)
        h   == show_food_listings(conn, db, nextId, la.frames["Food_Listings_Dataset"],
                                  show_add_form, click, submitted, fields, fails)
        la2 == load_all_data(conn, la.cache, la.allCache, h.db)
        h2  == show_food_listings(conn, h.db, h.nextId,
                                  la2.frames["Food_Listings_Dataset"],
                                  h.show_add_form, FALSE, FALSE, fields, FALSE)
    IN  /\ db' = h.db
        /\ nextId' = h.nextId
        /\ cache' = IF h.rerun THEN la2.cache ELSE la.cache
        /\ allCache' = IF h.rerun THEN la2.allCache ELSE la.allCache
        /\ show_add_form' = IF h.rerun THEN h2.show_add_form ELSE h.show_add_form
        /\ last' = [op |-> op, table |-> "Food_Listings_Dataset", id |-> 0,
                    fields |-> fields, ret |-> h.ret, notice |-> h.notice,
                    shown |-> IF h.rerun THEN h2.shown ELSE h.shown,
                    reads |-> la.reads + (IF h.rerun THEN la2.reads ELSE 0),
                    writes |-> h.writes, rowcount |-> h.rowcount]
        /\ UNCHANGED <<conn, frames, view, result>>

ShowFoodListingsPage == ListingsRun("Listings", FALSE, FALSE, NoFields, FALSE)

\* the widgets of the Food Listings page are on screen when the last run
\* rendered that page up to its table
ListingsOnScreen ==
    last.op \in {"Listings", "Click", "Submit"} /\ last.shown # {}

ClickAddNewListing ==
    /\ ListingsOnScreen
    /\ ListingsRun("Click", TRUE, FALSE, NoFields, FALSE)

SubmitAddListing ==
    /\ ListingsOnScreen
    /\ show_add_form
    /\ nextId["Food_Listings_Dataset"] <= MaxId
    /\ \E fields \in ListingFields, fails \in BOOLEAN :
          ListingsRun("Submit", FALSE, TRUE, fields, fails)

ShowQueries == \E k \in Computed : ShowReport(k)

NextPages ==
    ShowFoodListingsPage \/ ClickAddNewListing \/ SubmitAddListing \/ ShowQueries

SpecPages == Init /\ [][NextPages]_vars

-----------------------------------------------------------------------------
(* Claims about the reports *)

RECURSIVE SumPercentage(_)
SumPercentage(rows) ==
    IF rows = {} THEN 0
    ELSE LET r == CHOOSE x \in rows : TRUE
         IN  r.Percentage + SumPercentage(rows \ {r})

Abs(x) == IF x < 0 THEN -x ELSE x

\* C10: over a non-empty Claims table Report 10 has one row per status and its
\* percentages add up to 100.00, give or take half a hundredth per row.
C10_PercentagesSumTo100 ==
    (result.query = Query10Text /\ conn /\ db["Claims"] # {})
    => /\ { r.Status : r \in result.rows } = { c.fields.Status : c \in db["Claims"] }
       /\ Cardinality(result.rows) = Cardinality({ r.Status : r \in result.rows })
       /\ 2 * Abs(SumPercentage(result.rows) - 10000) <= Cardinality(result.rows)

\* three status groups of one claim each: 33.33 + 33.33 + 33.33 = 99.99
C10_Witness ==
    /\ result.query = Query10Text /\ conn
    /\ Cardinality(db["Claims"]) = 3
    /\ Cardinality(result.rows) = 3
    /\ SumPercentage(result.rows) = 9999

-----------------------------------------------------------------------------
(* Claims about the data access layer and the CRUD page *)

FormTables == {"Providers", "Receivers"}

\* C1: a Create followed by a Read of the same table shows a row whose fields
\* equal the submitted fields, whatever was read before the Create.
C1_CreateThenRead ==
    [][ ( /\ last.op = "Create" /\ last.ret = "True"
          /\ last'.op = "Read" /\ last'.table = last.table )
        => \E row \in last'.shown : row.fields = last.fields ]_vars

\* C2: execute_query never lets an error out: a failing statement makes it
\* return False.
C2_ExecuteNeverRaises == last.ret # "raised"

\* C3: without a connection every read returns an empty result, every write
\* returns False, nothing raises and no table changes.
C3_NoConnection ==
    [][ ~conn =>
          /\ db' = db
          /\ last'.ret \in {"none", "False"}
          /\ (last'.op = "Create" /\ last'.table \in FormTables => last'.ret = "False")
          /\ last'.notice # "exception"
          /\ last'.shown = {}
          /\ \A q \in DOMAIN cache' : cache'[q] = {} ]_vars

C3_Witness ==
    /\ ~conn
    /\ last.op = "Create" /\ last.ret = "False"
    /\ SelectAll(last.table) \in DOMAIN cache
    /\ db[last.table] # {}

\* C4: a Delete reported as successful removes exactly the one row whose
\* identity equals the selected value and leaves every other row alone.
C4_DeleteRemovesOne ==
    [][ (last'.op = "Delete" /\ last'.notice = "success")
        => \E r \in db[last'.table] :
              /\ r.id = last'.id
              /\ db' = [db EXCEPT ![last'.table] = @ \ {r}] ]_vars

\* C5: for each of the four tables an Update gives the row whose identity
\* equals the selected value the submitted fields and leaves every other row,
\* and every other table, unchanged.
C5_UpdateExactlyTarget ==
    [][ (last'.op = "Update" /\ last'.notice \notin {"warning", "exception"})
        => db' = Update(db, last'.table, last'.id, last'.fields) ]_vars

\* C6: once load_data has returned a result for a query text, every later
\* load_data of that text returns the same result, whatever was written
\* in between.
C6_Memoized ==
    [][ /\ \A q \in DOMAIN cache : q \in DOMAIN cache' /\ cache'[q] = cache[q]
        /\ (last'.op = "Read" /\ SelectAll(last'.table) \in DOMAIN cache
              => last'.shown = cache[SelectAll(last'.table)]) ]_vars

\* a read that returned the memoized rows although the table has changed
C6_Witness ==
    /\ conn
    /\ last.op = "Read"
    /\ last.shown = cache[SelectAll(last.table)]
    /\ last.shown # db[last.table]

-----------------------------------------------------------------------------
(* Claims about the claims-detail view *)

Rendered == view # NoView

InputsNonEmpty ==
    ~empty(frames.claims) /\ ~empty(frames.food_listings) /\ ~empty(frames.receivers)

\* the column is a column of Claims and of Receivers
InBoth(c) == InSeq(c, frames.claims.cols) /\ InSeq(c, frames.receivers.cols)

\* the table has one row per claim, in order, each carrying its claim's values
ClaimsKept(t) ==
    /\ Len(t.rows) = Len(frames.claims.rows)
    /\ \A i \in 1..Len(t.rows) : \A c \in Range(frames.claims.cols) :
          t.rows[i][c] = frames.claims.rows[i][c]

\* the Name of the receiver whose column `key` holds v ("NaN" when none does)
NameOf(key, v) ==
    LET m == { j \in 1..Len(frames.receivers.rows) : frames.receivers.rows[j][key] = v }
    IN  IF m = {} THEN "NaN" ELSE frames.receivers.rows[CHOOSE j \in m : TRUE]["Name"]

\* the page shows one row per claim with the Name of the receiver that the
\* claim's column `key` names
MergedOn(key) ==
    /\ view.notice = "shown"
    /\ ClaimsKept(view.table)
    /\ InSeq("Name", view.table.cols)
    /\ \A i \in 1..Len(view.table.rows) :
          view.table.rows[i]["Name"] = NameOf(key, frames.claims.rows[i][key])

SharedIdCols ==
    SelectSeq(frames.claims.cols,
              LAMBDA c : InSeq(c, frames.receivers.cols) /\ EndsWith_ID(c))

\* C7: the receiver column is the first of Receiver_ID, ReceiverID, ReceiverId
\* that both frames have; when none is, the first shared column ending in _ID
\* is used, and the receiver data is merged on it.
C7_ReceiverKeyOrder ==
    (Rendered /\ InputsNonEmpty /\ InSeq("Name", frames.receivers.cols))
    => IF InBoth("Receiver_ID") THEN MergedOn("Receiver_ID")
       ELSE IF InBoth("ReceiverID") THEN MergedOn("ReceiverID")
       ELSE IF InBoth("ReceiverId") THEN MergedOn("ReceiverId")
       ELSE Len(SharedIdCols) > 0 => MergedOn(SharedIdCols[1])

ReceiverIDFixture ==
    /\ InputsNonEmpty
    /\ InBoth("ReceiverID")
    /\ ~InSeq("Receiver_ID", frames.claims.cols)
    /\ ~InSeq("Receiver_ID", frames.receivers.cols)
    /\ InSeq("Name", frames.receivers.cols)

\* C8: with non-empty frames whose receiver column is ReceiverID in Claims and
\* in Receivers, the view has exactly one row per claim, carrying the Name of
\* the matching receiver.
C8_ReceiverIDJoin == (Rendered /\ ReceiverIDFixture) => MergedOn("ReceiverID")

C8_Witness ==
    /\ Rendered /\ ReceiverIDFixture
    /\ Len(frames.claims.rows) = 2
    /\ view.table.rows[1]["Name"] = "Ann"
    /\ view.table.rows[2]["Name"] = "NaN"

Unresolved == ~InBoth("Receiver_ID") /\ ~InBoth("ReceiverID") /\ ~InBoth("ReceiverId")

\* C9: no exception leaves show_claims, whatever the schemas; and when none of
\* the three receiver columns is resolved the page still shows the claims,
\* one row per claim, without receiver data.
C9_NoUnhandledError ==
    Rendered =>
      /\ ~view.raised
      /\ (InputsNonEmpty /\ Unresolved)
           => /\ view.notice \in {"shown", "error"}
              /\ ClaimsKept(view.table)
              /\ ~InSeq("Name", view.table.cols)

\* the fallback merge raised and the except clause showed the raw claims
C9_Witness ==
    /\ Rendered /\ InputsNonEmpty /\ Unresolved
    /\ Len(SharedIdCols) > 0
    /\ view.notice = "error"
    /\ view.table = frames.claims

-----------------------------------------------------------------------------
(* Claims about the reports, the add-listing form and the forms of the CRUD *)
(* page                                                                      *)

\* C11: over an empty Claims table Report 10 returns no row, so that no
\* percentage (and no division by the zero total) is ever computed.
C11_EmptyClaimsNoRows ==
    (result.query = Query10Text /\ db["Claims"] = {}) => result.rows = {}

C11_Witness ==
    /\ result.query = Query10Text /\ conn
    /\ db["Claims"] = {}
    /\ Query10Text \in DOMAIN cache

\* C12: whenever the Queries page is rendered, Report 5 is one row holding
\* the sum of Quantity over the listings stored at that moment, listings
\* added through the add-listing form included.
C12_Report5IsCurrentSum ==
    [][ (last'.op = "Queries" /\ result'.query = Query5Text /\ conn)
        => /\ Cardinality(result'.rows) = 1
           /\ \A r \in result'.rows :
                 r.Total_Quantity_Available
                   = SumQuantity(db'["Food_Listings_Dataset"]) ]_vars

LastNameHasTotalOrCount ==
    LET name == result.columns[Len(result.columns)]
    IN  Contains(name, "Total") \/ Contains(name, "Count")

ReportShown == result.query # NoResult.query

\* C13 as stated: show_queries marks no result as proportion-like, so every
\* non-empty result gets a bar chart when its last column name contains
\* "Total" or "Count", whatever its number of rows, and no chart otherwise.
C13_ChartHintPolicy ==
    (ReportShown /\ result.rows # {})
    => result.chart = IF LastNameHasTotalOrCount THEN "bar" ELSE "none"

\* C13 amended: show_queries draws a bar chart exactly when the result has
\* more than one row, at least two columns and a last column name that
\* contains "Total" or "Count"; otherwise it draws no chart, and never a pie.
C13_BarNeedsTwoRowsTwoColumns ==
    ReportShown
    => result.chart = IF /\ Cardinality(result.rows) > 1
                         /\ Len(result.columns) >= 2
                         /\ LastNameHasTotalOrCount
                      THEN "bar" ELSE "none"

\* Report 7 over listings of a single food type: one row, last column
\* Listings_Count, no chart
C13_Witness ==
    /\ result.query = Query7Text
    /\ Cardinality(result.rows) = 1
    /\ result.chart = "none"

\* C14: execute_query is never called for an insert whose name field is
\* empty.
C14_CreateValidates ==
    (last.op = "Create" /\ last.ret # "none") => last.fields.Name # ""

\* C15: when execute_query returns False in a Create, Update or Delete flow
\* the page shows a failure notice.
C15_FailureNotice ==
    (last.op \in {"Create", "Update", "Delete"} /\ last.ret = "False")
    => last.notice = "failure"

\* C16 as stated: an interaction makes at most one data-access call.
C16_OneAccessPerInteraction == last.reads + last.writes <= 1

\* C16 amended: an interaction calls execute_query at most once, and reads
\* the database once for every query text it loads for the first time and
\* not at all for a memoized text.
C16_OneReadPerNewText ==
    [][ /\ last'.writes <= 1
        /\ last'.reads = IF conn THEN Cardinality(DOMAIN cache' \ DOMAIN cache)
                         ELSE 0 ]_vars

\* the Queries page as first interaction: four table reads and thirteen
\* report reads in one run
C16_Witness ==
    /\ conn
    /\ last.op = "Queries"
    /\ last.reads = Cardinality(Tables) + ReportCount

\* the ids the delete form offers for the table of the last operation
OfferedNow == Offered(load_all_data(conn, cache, allCache, db), last.table)

\* C17: after a Delete that execute_query ran, the id deleted is still
\* offered by the form; and a Delete of an id that is not stored (any more)
\* returns True, touches no row and leaves the tables as they were.
C17_StaleDeleteSucceeds ==
    [][ (last'.op = "Delete" /\ last'.ret \in {"True", "False"})
        => /\ last'.id \in OfferedNow'
           /\ (last'.id \notin Ids(db[last'.table]))
                => /\ last'.ret = "True"
                   /\ last'.notice = "success"
                   /\ last'.rowcount = 0
                   /\ db' = db ]_vars

\* a row was deleted and then deleted once more
C17_Witness ==
    /\ last.op = "Delete" /\ last.ret = "True"
    /\ last.rowcount = 0
    /\ last.id \in OfferedNow
    /\ last.id \notin Ids(db[last.table])

\* C18: show_add_form starts false, becomes true only in a run in which
\* "Add New Listing" was clicked, becomes false only in a run whose submit
\* had execute_query return True; a submit for which execute_query did not
\* return True leaves the flag true and the tables as they were.
C18_AddFormFlag ==
    /\ ~show_add_form
    /\ [][ /\ (~show_add_form /\ show_add_form') => last'.op = "Click"
           /\ (show_add_form /\ ~show_add_form')
                => (last'.op = "Submit" /\ last'.ret = "True")
           /\ (last'.op = "Submit" /\ last'.ret # "True")
                => (show_add_form' /\ db' = db) ]_vars

\* a submit stored a listing and closed the form
C18_Witness ==
    /\ last.op = "Submit" /\ last.ret = "True"
    /\ ~show_add_form
    /\ \E r \in db["Food_Listings_Dataset"] : r.fields = last.fields

====
